---------------------------- MODULE Spec2Model ----------------------------
(***************************************************************************)
(* Model of the ad-serving / tracking routes (backend/routes/ads.routes.js)*)
(* and of the nomination lifecycle handlers (backend/server.js).           *)
(*                                                                         *)
(* Every await on the document store is a suspension point: a handler with *)
(* several store operations is a sequence of actions, one per operation,   *)
(* and concurrent requests interleave between them.                        *)
(***************************************************************************)
EXTENDS Integers, FiniteSets, Sequences, TLC

(***************************************************************************)
(* Bounds of the model.                                                    *)
(***************************************************************************)
MaxCampaigns == 2
MaxAdReqs == 2
MaxTime == 2
MaxSessions == 2
MaxNomReqs == 3
MaxNoms == 1
MaxProfileOps == 3
MaxViewReqs == 3

Null == "null"
NoId == <<"Null", 0>>

(***************************************************************************)
(* Identifiers.  A document's _id is an ObjectId; an id that arrives in a  *)
(* query string or JSON body is a string.  Mongoose casts strings to       *)
(* ObjectIds in documents and in queries (save, findByIdAndUpdate), but    *)
(* not in the stages of an aggregation pipeline.  The store compares       *)
(* values by type and value, so a string never equals an ObjectId.         *)
(***************************************************************************)
Str(n) == <<"String", n>>
Oid(n) == <<"ObjectId", n>>
CastObjectId(v) == Oid(v[2])
(* res.json writes an ObjectId as its string.                              *)
ToJSON(v) == IF v[1] = "ObjectId" THEN Str(v[2]) ELSE v

ExistingNums == 1..MaxCampaigns
UnknownNum == MaxCampaigns + 1
CampaignOids == {Oid(n) : n \in ExistingNums}
BodyCampaignIds == {Str(n) : n \in ExistingNums \cup {UnknownNum}}
Sessions == 1..MaxSessions
(* impression_id of a click body: absent, or the id of the first           *)
(* impression document; the handler does not look the id up.               *)
BodyImpressionIds == {Oid(1), NoId}
AdReqs == 1..MaxAdReqs

NomReqs == 1..MaxNomReqs
NomIds == 1..MaxNoms
UnknownNom == MaxNoms + 1

ViewReqs == 1..MaxViewReqs

VARIABLES campaigns, impressions, clicks, now, adReq, selResp,
          nominations, notifications, nomReq,
          accounts, profLog, content, viewReq

adVars == <<campaigns, impressions, clicks, adReq, selResp>>
nomVars == <<nominations, notifications, nomReq>>
siteVars == <<accounts, profLog, content, viewReq>>
vars == <<campaigns, impressions, clicks, now, adReq, selResp,
          nominations, notifications, nomReq,
          accounts, profLog, content, viewReq>>

(***************************************************************************)
(* Campaign documents.  max_impressions is the empty set for null (no cap) *)
(* and {m} for a cap of m.  Campaign n is owned by advertiser n.           *)
(***************************************************************************)
PlacementTypes == {"popup", "banner"}
Advertisers == {Oid(n) : n \in ExistingNums}

BaseProfile ==
    [campaign_type |-> "popup", lifecycle |-> <<"active", "paid">>,
     window |-> <<0, MaxTime>>, max_impressions |-> {1}]

(* The base profile and the profiles that differ from it in one field.     *)
CampaignProfiles ==
    {BaseProfile,
     [BaseProfile EXCEPT !.max_impressions = {}],
     [BaseProfile EXCEPT !.campaign_type = "banner"],
     [BaseProfile EXCEPT !.lifecycle = <<"paused", "paid">>],
     [BaseProfile EXCEPT !.lifecycle = <<"active", "pending">>],
     [BaseProfile EXCEPT !.window = <<1, 1>>]}

(* The creative of campaign n and the advertiser documents the $lookup     *)
(* joins; the values stand for the strings stored in those fields.         *)
CreativeFields ==
    {"campaign_name", "image_url", "mobile_image_url", "alt_text", "target_url"}

AdvertiserDocs == [a \in Advertisers |-> [business_name |-> <<"business_name", a[2]>>]]

NewCampaign(n, p) ==
    [campaign_name |-> <<"campaign_name", n>>,
     image_url |-> <<"image_url", n>>,
     mobile_image_url |-> <<"mobile_image_url", n>>,
     alt_text |-> <<"alt_text", n>>,
     target_url |-> <<"target_url", n>>,
     campaign_type |-> p.campaign_type,
     status |-> p.lifecycle[1],
     payment_status |-> p.lifecycle[2],
     start_date |-> p.window[1],
     end_date |-> p.window[2],
     max_impressions |-> p.max_impressions,
     current_impressions |-> 0,
     current_clicks |-> 0,
     advertiser_id |-> Oid(n)]

(***************************************************************************)
(* One HTTP request of the ads router: its position in the handler, its    *)
(* inputs, the handler's local values and the response it has sent.        *)
(***************************************************************************)
IdleReq ==
    [pc |-> "idle", kind |-> Null, campaign_id |-> NoId, impression_id |-> NoId,
     session_id |-> 0, rec |-> NoId, matched |-> FALSE, status |-> 0, data |-> NoId]

(* The last response of GET /ads/next with the query it answered: at is   *)
(* the handler's now, ad the document the pipeline returned, data the      *)
(* data object of the JSON body.                                           *)
NoAd == [_id |-> NoId]
NoData == [id |-> NoId]

NoSelResp ==
    [placement |-> Null, exclude |-> {}, at |-> 0, status |-> 0, ad |-> NoAd,
     data |-> NoData]

(***************************************************************************)
(* GET /ads/next: the $match stage.  excludeIds is the list of strings     *)
(* split from the query string; the pipeline is not cast, so the strings   *)
(* are compared with the ObjectId _id.                                     *)
(***************************************************************************)
CapAllows(c) ==
    \/ c.max_impressions = {}
    \/ \E m \in c.max_impressions : c.current_impressions < m

MatchQuery(id, c, type, excludeIds, t) ==
    /\ c.campaign_type = type
    /\ c.status = "active"
    /\ c.payment_status = "paid"
    /\ c.start_date <= t
    /\ c.end_date >= t
    /\ id \notin excludeIds
    /\ CapAllows(c)

Matched(camps, type, excludeIds, t) ==
    {id \in DOMAIN camps : MatchQuery(id, camps[id], type, excludeIds, t)}

(* $lookup of the advertiser followed by $unwind: a sampled campaign with  *)
(* no advertiser document yields no row.                                   *)
LookupUnwind(camps, ids) ==
    {id \in ids : camps[id].advertiser_id \in Advertisers}

(* Faulty variants of the counter update.  The first writes the value 1    *)
(* instead of adding 1 ({field: 1} for {$inc: {field: 1}}); the second     *)
(* passes upsert: true and so inserts a document for an unknown id.        *)
FindByIdAndUpdateSet(camps, id, field) ==
    IF id \in DOMAIN camps
    THEN [camps EXCEPT ![id][field] = 1]
    ELSE camps

FindByIdAndUpdateUpsert(camps, id, field) ==
    IF id \in DOMAIN camps
    THEN [camps EXCEPT ![id][field] = @ + 1]
    ELSE [x \in DOMAIN camps \cup {id} |->
            IF x = id THEN [f \in {field} |-> 1] ELSE camps[x]]

(* A faulty variant: the increment carries the selector's cap and state    *)
(* filter, so a campaign that is capped out or not running is not counted. *)
FindByIdAndUpdateIncIfEligible(camps, id, field) ==
    IF /\ id \in DOMAIN camps
       /\ CapAllows(camps[id])
       /\ camps[id].status = "active"
       /\ camps[id].payment_status = "paid"
    THEN [camps EXCEPT ![id][field] = @ + 1]
    ELSE camps

(* findByIdAndUpdate(id, {$inc: {field: 1}}): one atomic update of the     *)
(* document with that _id; no upsert option, so no document is created.    *)
FindByIdAndUpdateInc(camps, id, field) ==
    IF id \in DOMAIN camps
    THEN [camps EXCEPT ![id][field] = @ + 1]
    ELSE camps

(***************************************************************************)
(* GET /ads/next                                                           *)
(***************************************************************************)
WithId(camps, id) ==
    [f \in DOMAIN camps[id] \cup {"_id"} |->
        IF f = "_id" THEN id ELSE camps[id][f]]

(* The row after $lookup and $unwind carries the advertiser document.      *)
WithAdvertiser(ad) ==
    [f \in DOMAIN ad \cup {"advertiser"} |->
        IF f = "advertiser" THEN AdvertiserDocs[ad.advertiser_id] ELSE ad[f]]

(* A faulty variant of the response body: the document's cap and counter   *)
(* are serialized with the creative.                                       *)
ResponseDataWithCounters(ad) ==
    [id |-> ToJSON(ad._id),
     campaign_name |-> ad.campaign_name,
     image_url |-> ad.image_url,
     mobile_image_url |-> ad.mobile_image_url,
     alt_text |-> ad.alt_text,
     target_url |-> ad.target_url,
     business_name |-> ad.advertiser.business_name,
     max_impressions |-> ad.max_impressions,
     current_impressions |-> ad.current_impressions]

(* The data object of the 200 response.                                    *)
ResponseData(ad) ==
    [id |-> ToJSON(ad._id),
     campaign_name |-> ad.campaign_name,
     image_url |-> ad.image_url,
     mobile_image_url |-> ad.mobile_image_url,
     alt_text |-> ad.alt_text,
     target_url |-> ad.target_url,
     business_name |-> ad.advertiser.business_name]

SelectCampaign ==
    /\ \E type \in PlacementTypes, excl \in SUBSET BodyCampaignIds :
         LET matched == Matched(campaigns, type, excl, now)
         IN  \E sample \in (IF matched = {} THEN {{}} ELSE {{id} : id \in matched}) :
               LET ads == LookupUnwind(campaigns, sample)
               IN  IF ads = {}
                   THEN selResp' = [placement |-> type, exclude |-> excl, at |-> now,
                                    status |-> 404, ad |-> NoAd, data |-> NoData]
                   ELSE LET id == CHOOSE x \in ads : TRUE
                            ad == WithAdvertiser(WithId(campaigns, id))
                        IN  selResp' = [placement |-> type, exclude |-> excl,
                                        at |-> now, status |-> 200,
                                        ad |-> ad,
                                        data |-> ResponseData(ad)]
    /\ UNCHANGED <<campaigns, impressions, clicks, now, adReq, nomVars, siteVars>>

SelectCampaignFails ==
    /\ \E type \in PlacementTypes, excl \in SUBSET BodyCampaignIds :
         selResp' = [placement |-> type, exclude |-> excl, at |-> now,
                     status |-> 500, ad |-> NoAd, data |-> NoData]
    /\ UNCHANGED <<campaigns, impressions, clicks, now, adReq, nomVars, siteVars>>

(***************************************************************************)
(* The trackers' input check and their insert.  !campaign_id is true of a  *)
(* body without the field; save() of a new document adds it to the         *)
(* collection and touches no other document.                               *)
(***************************************************************************)
MissingNever(cid) == FALSE

MissingCampaignId(cid) == cid = NoId

SaveReplacing(coll, doc) == {doc}

SaveNew(coll, doc) == coll \cup {doc}

(***************************************************************************)
(* POST /ads/track/impression                                              *)
(***************************************************************************)
RecordImpressionSave(r) ==
    /\ adReq[r].pc = "idle"
    /\ \E cid \in BodyCampaignIds \cup {NoId}, s \in Sessions :
         IF MissingCampaignId(cid)
         THEN /\ adReq' = [adReq EXCEPT ![r].pc = "done", ![r].kind = "impression",
                                        ![r].status = 400]
              /\ UNCHANGED impressions
         ELSE /\ impressions' = SaveNew(impressions,
                    [id |-> Oid(r), campaign_id |-> CastObjectId(cid), session_id |-> s])
              /\ adReq' = [adReq EXCEPT ![r].pc = "saved", ![r].kind = "impression",
                                        ![r].campaign_id = cid, ![r].session_id = s,
                                        ![r].rec = Oid(r)]
    /\ UNCHANGED <<campaigns, clicks, now, selResp, nomVars, siteVars>>

RecordImpressionInc(r) ==
    /\ adReq[r].pc = "saved"
    /\ adReq[r].kind = "impression"
    /\ LET id == CastObjectId(adReq[r].campaign_id)
       IN  /\ campaigns' = FindByIdAndUpdateInc(campaigns, id, "current_impressions")
           /\ adReq' = [adReq EXCEPT ![r].pc = "done", ![r].status = 200,
                                     ![r].matched = (id \in DOMAIN campaigns),
                                     ![r].data = adReq[r].rec]
    /\ UNCHANGED <<impressions, clicks, now, selResp, nomVars, siteVars>>

(***************************************************************************)
(* POST /ads/track/click                                                   *)
(***************************************************************************)
RecordClickSave(r) ==
    /\ adReq[r].pc = "idle"
    /\ \E cid \in BodyCampaignIds \cup {NoId}, s \in Sessions,
          imp \in BodyImpressionIds :
         IF MissingCampaignId(cid)
         THEN /\ adReq' = [adReq EXCEPT ![r].pc = "done", ![r].kind = "click",
                                        ![r].status = 400]
              /\ UNCHANGED clicks
         ELSE /\ clicks' = SaveNew(clicks,
                    [id |-> Oid(r), campaign_id |-> CastObjectId(cid),
                     impression_id |-> imp, session_id |-> s])
              /\ adReq' = [adReq EXCEPT ![r].pc = "saved", ![r].kind = "click",
                                        ![r].campaign_id = cid, ![r].session_id = s,
                                        ![r].impression_id = imp, ![r].rec = Oid(r)]
    /\ UNCHANGED <<campaigns, impressions, now, selResp, nomVars, siteVars>>

(* A faulty variant: the click handler bumps the impression counter.      *)
RecordClickIncImpressions(r) ==
    /\ adReq[r].pc = "saved"
    /\ adReq[r].kind = "click"
    /\ LET id == CastObjectId(adReq[r].campaign_id)
       IN  /\ campaigns' = FindByIdAndUpdateInc(campaigns, id, "current_impressions")
           /\ adReq' = [adReq EXCEPT ![r].pc = "done", ![r].status = 200,
                                     ![r].matched = (id \in DOMAIN campaigns),
                                     ![r].data = adReq[r].rec]
    /\ UNCHANGED <<impressions, clicks, now, selResp, nomVars, siteVars>>

RecordClickInc(r) ==
    /\ adReq[r].pc = "saved"
    /\ adReq[r].kind = "click"
    /\ LET id == CastObjectId(adReq[r].campaign_id)
       IN  /\ campaigns' = FindByIdAndUpdateInc(campaigns, id, "current_clicks")
           /\ adReq' = [adReq EXCEPT ![r].pc = "done", ![r].status = 200,
                                     ![r].matched = (id \in DOMAIN campaigns),
                                     ![r].data = adReq[r].rec]
    /\ UNCHANGED <<impressions, clicks, now, selResp, nomVars, siteVars>>

(***************************************************************************)
(* A store operation that throws lands in the handler's catch block: the   *)
(* request is answered 500 and what was written before stays written.      *)
(***************************************************************************)
RecordSaveFails(r) ==
    /\ adReq[r].pc = "idle"
    /\ \E k \in {"impression", "click"}, cid \in BodyCampaignIds :
         adReq' = [adReq EXCEPT ![r].pc = "done", ![r].kind = k,
                                ![r].campaign_id = cid, ![r].status = 500]
    /\ UNCHANGED <<campaigns, impressions, clicks, now, selResp, nomVars, siteVars>>

RecordIncFails(r) ==
    /\ adReq[r].pc = "saved"
    /\ adReq' = [adReq EXCEPT ![r].pc = "done", ![r].status = 500]
    /\ UNCHANGED <<campaigns, impressions, clicks, now, selResp, nomVars, siteVars>>

Tick ==
    /\ now < MaxTime
    /\ now' = now + 1
    /\ UNCHANGED <<campaigns, impressions, clicks, adReq, selResp, nomVars, siteVars>>

(***************************************************************************)
(* Users.  authenticate admits a user whose status is active or verified;  *)
(* authorize('admin') admits role admin only.                              *)
(***************************************************************************)
Users ==
    [B1 |-> [role |-> "business", status |-> "active", verified |-> TRUE],
     B2 |-> [role |-> "business", status |-> "active", verified |-> FALSE],
     A1 |-> [role |-> "admin", status |-> "active", verified |-> TRUE],
     A2 |-> [role |-> "admin", status |-> "suspended", verified |-> TRUE]]

UserIds == DOMAIN Users

Authenticated(u) == Users[u].status \in {"active", "verified"}

(* A faulty variant: the route is mounted without authorize(...).          *)
AuthorizeAny(u, roles) == TRUE

Authorize(u, roles) == Users[u].role \in roles

(* A faulty variant: the recipients' status is not looked at.               *)
AnyAdmins == {u \in UserIds : Users[u].role = "admin"}

(* User.find({ role: 'admin', status: 'active' })                          *)
ActiveAdmins == {u \in UserIds : Users[u].role = "admin" /\ Users[u].status = "active"}

(***************************************************************************)
(* Nomination documents.  A timeline field is {} while unset and {t} once  *)
(* stamped at time t.                                                      *)
(***************************************************************************)
NominationStatuses ==
    {"draft", "submitted", "under_review", "shortlisted", "finalist", "winner",
     "not_selected"}

(* {...a, ...b}: the fields of both, b's value where both have the field.  *)
Merge(a, b) ==
    [f \in DOMAIN a \cup DOMAIN b |-> IF f \in DOMAIN b THEN b[f] ELSE a[f]]

(* Request bodies of POST /api/nominations: one with none of the fields    *)
(* modelled here, one that carries status, business_id and evaluation      *)
(* fields, and one whose score is above the schema's maximum.              *)
EmptyBody == [f \in {} |-> Null]
EvaluatedBody ==
    [status |-> "winner", business_id |-> "B2", scores |-> <<80>>,
     average_score |-> 50, feedback |-> "fb", winner_position |-> "gold",
     awarded_at |-> {0}]
OutOfRangeBody == [scores |-> <<101>>]
CreateBodies == {EmptyBody, EvaluatedBody, OutOfRangeBody}

(* A faulty variant: the body is spread last and overrides the two fields. *)
NominationDataBodyLast(body, u) ==
    Merge([business_id |-> u, status |-> "draft"], body)

(* nominationData = {...req.body, business_id: req.user.id, status:        *)
(* 'draft'}.                                                               *)
NominationData(body, u) ==
    Merge(body, [business_id |-> u, status |-> "draft"])

(* new Nomination(data): the schema's defaults for the paths data lacks.   *)
NominationDefaults ==
    [status |-> "draft", scores |-> <<>>, average_score |-> 0, feedback |-> "",
     winner_position |-> Null,
     submitted_at |-> {}, reviewed_at |-> {}, shortlisted_at |-> {},
     awarded_at |-> {}]

NewNomination(data) == Merge(NominationDefaults, data)

(* The validators save() runs on a new document: score min 0, max 100.     *)
Validates(doc) == \A i \in DOMAIN doc.scores : doc.scores[i] \in 0..100

(* One HTTP request of the nomination handlers.  snap is the status of the *)
(* document the handler loaded; overwritten is the status the store held   *)
(* when the handler's save replaced it.                                    *)
IdleNomReq ==
    [pc |-> "idle", kind |-> Null, user |-> Null, nom |-> 0, snap |-> Null,
     newStatus |-> Null, feedback |-> "", overwritten |-> Null, status |-> 0,
     body |-> EmptyBody]

(* One call of sendNotification by request r, the seq-th of that request:  *)
(* saved tells whether notification.save() stored the document or threw    *)
(* and the error was logged and dropped.                                   *)
Notify(notes, r, u, title, n, ok) ==
    notes \cup {[req |-> r, seq |-> Cardinality({x \in notes : x.req = r}) + 1,
                 user_id |-> u, title |-> title, related_id |-> n, saved |-> ok]}

SendNotification(notes, r, u, title, n) == Notify(notes, r, u, title, n, TRUE)

SendNotificationFails(notes, r, u, title, n) == Notify(notes, r, u, title, n, FALSE)

(***************************************************************************)
(* POST /api/nominations                                                   *)
(***************************************************************************)
CreateNomination(r) ==
    /\ nomReq[r].pc = "idle"
    /\ Cardinality(DOMAIN nominations) < MaxNoms
    /\ \E u \in UserIds :
         /\ Authenticated(u)
         /\ IF ~Users[u].verified
            THEN /\ nomReq' = [nomReq EXCEPT ![r].pc = "done", ![r].kind = "create",
                                             ![r].user = u, ![r].status = 403]
                 /\ UNCHANGED nominations
            ELSE \E body \in CreateBodies :
                 LET id == Cardinality(DOMAIN nominations) + 1
                     doc == NewNomination(NominationData(body, u))
                 IN  IF ~Validates(doc)
                     THEN /\ nomReq' = [nomReq EXCEPT ![r].pc = "done",
                                                      ![r].kind = "create",
                                                      ![r].user = u, ![r].body = body,
                                                      ![r].status = 500]
                          /\ UNCHANGED nominations
                     ELSE /\ nominations' = [n \in DOMAIN nominations \cup {id} |->
                                               IF n = id THEN doc ELSE nominations[n]]
                          /\ nomReq' = [nomReq EXCEPT ![r].pc = "created",
                                                      ![r].kind = "create",
                                                      ![r].user = u, ![r].nom = id,
                                                      ![r].body = body]
    /\ UNCHANGED <<notifications, now, adVars, siteVars>>

CreateNotify(r) ==
    /\ nomReq[r].pc = "created"
    /\ notifications' = SendNotification(notifications, r, nomReq[r].user,
                                         "Nomination Draft Created", nomReq[r].nom)
    /\ nomReq' = [nomReq EXCEPT ![r].pc = "done", ![r].status = 201]
    /\ UNCHANGED <<nominations, now, adVars, siteVars>>

(***************************************************************************)
(* PUT /api/nominations/:id/submit                                         *)
(***************************************************************************)
(* Faulty variants: the lookup ignores the owner; the status test is       *)
(* missing.                                                                *)
FindOneAnyOwner(noms, n, u) == n \in DOMAIN noms

CanSubmitAlways(st) == TRUE

(* Nomination.findOne({_id: n, business_id: u}) returns a document.        *)
FindOneOwned(noms, n, u) == n \in DOMAIN noms /\ noms[n].business_id = u

(* The handler goes on to the update when nomination.status is 'draft'.    *)
CanSubmit(st) == st = "draft"

SubmitFind(r) ==
    /\ nomReq[r].pc = "idle"
    /\ \E u \in UserIds, n \in NomIds \cup {UnknownNom} :
         /\ Authenticated(u)
         /\ LET found == FindOneOwned(nominations, n, u)
            IN  nomReq' = [nomReq EXCEPT
                   ![r].kind = "submit", ![r].user = u, ![r].nom = n,
                   ![r].snap = IF found THEN nominations[n].status ELSE Null,
                   ![r].pc = IF found /\ CanSubmit(nominations[n].status)
                             THEN "loaded" ELSE "done",
                   ![r].status = IF ~found THEN 404
                                 ELSE IF ~CanSubmit(nominations[n].status) THEN 400
                                 ELSE 0]
    /\ UNCHANGED <<nominations, notifications, now, adVars, siteVars>>

(* nomination.save() writes the paths the handler modified.                *)
SubmitSave(r) ==
    /\ nomReq[r].pc = "loaded"
    /\ nomReq[r].kind = "submit"
    /\ LET n == nomReq[r].nom
       IN  /\ nominations' = [nominations EXCEPT ![n].status = "submitted",
                                                 ![n].submitted_at = {now}]
           /\ nomReq' = [nomReq EXCEPT ![r].pc = "saved",
                                       ![r].overwritten = nominations[n].status]
    /\ UNCHANGED <<notifications, now, adVars, siteVars>>

RECURSIVE NotifyAll(_, _, _, _, _)
NotifyAll(notes, r, recipients, title, n) ==
    IF recipients = {} THEN notes
    ELSE LET u == CHOOSE x \in recipients : TRUE
         IN  NotifyAll(SendNotification(notes, r, u, title, n), r,
                       recipients \ {u}, title, n)

RECURSIVE NotifyAllFails(_, _, _, _, _)
NotifyAllFails(notes, r, recipients, title, n) ==
    IF recipients = {} THEN notes
    ELSE LET u == CHOOSE x \in recipients : TRUE
         IN  NotifyAllFails(SendNotificationFails(notes, r, u, title, n), r,
                            recipients \ {u}, title, n)

SubmitNotifyAdmins(r) ==
    /\ nomReq[r].pc = "saved"
    /\ nomReq[r].kind = "submit"
    /\ notifications' = NotifyAll(notifications, r, ActiveAdmins,
                                  "New Nomination Submitted", nomReq[r].nom)
    /\ nomReq' = [nomReq EXCEPT ![r].pc = "notified"]
    /\ UNCHANGED <<nominations, now, adVars, siteVars>>

SubmitNotifyBusiness(r) ==
    /\ nomReq[r].pc = "notified"
    /\ nomReq[r].kind = "submit"
    /\ notifications' = SendNotification(notifications, r, nomReq[r].user,
                                         "Nomination Submitted", nomReq[r].nom)
    /\ nomReq' = [nomReq EXCEPT ![r].pc = "done", ![r].status = 200]
    /\ UNCHANGED <<nominations, now, adVars, siteVars>>

(* Failures after the save: User.find throws, which the handler's catch    *)
(* answers with 500; notification.save() throws inside sendNotification,   *)
(* which logs it and returns.                                              *)
SubmitLookupFails(r) ==
    /\ nomReq[r].pc = "saved"
    /\ nomReq[r].kind = "submit"
    /\ nomReq' = [nomReq EXCEPT ![r].pc = "done", ![r].status = 500]
    /\ UNCHANGED <<nominations, notifications, now, adVars, siteVars>>

SubmitNotifyAdminsFails(r) ==
    /\ nomReq[r].pc = "saved"
    /\ nomReq[r].kind = "submit"
    /\ notifications' = NotifyAllFails(notifications, r, ActiveAdmins,
                                       "New Nomination Submitted", nomReq[r].nom)
    /\ nomReq' = [nomReq EXCEPT ![r].pc = "notified"]
    /\ UNCHANGED <<nominations, now, adVars, siteVars>>

SubmitNotifyBusinessFails(r) ==
    /\ nomReq[r].pc = "notified"
    /\ nomReq[r].kind = "submit"
    /\ notifications' = SendNotificationFails(notifications, r, nomReq[r].user,
                                              "Nomination Submitted", nomReq[r].nom)
    /\ nomReq' = [nomReq EXCEPT ![r].pc = "done", ![r].status = 200]
    /\ UNCHANGED <<nominations, now, adVars, siteVars>>

(***************************************************************************)
(* PUT /api/admin/nominations/:id/status                                   *)
(***************************************************************************)
StatusInputs == NominationStatuses \cup {"bogus"}

StatusFind(r) ==
    /\ nomReq[r].pc = "idle"
    /\ \E u \in UserIds, n \in NomIds \cup {UnknownNom}, st \in StatusInputs,
          fb \in {"", "fb"} :
         /\ Authenticated(u)
         /\ LET allowed == Authorize(u, {"admin"})
                found == n \in DOMAIN nominations
            IN  IF allowed /\ found
                THEN nomReq' = [nomReq EXCEPT
                        ![r].kind = "status", ![r].user = u, ![r].nom = n,
                        ![r].newStatus = st, ![r].feedback = fb,
                        ![r].snap = nominations[n].status, ![r].pc = "loaded"]
                ELSE nomReq' = [nomReq EXCEPT
                        ![r].kind = "status", ![r].user = u, ![r].pc = "done",
                        ![r].status = IF ~allowed THEN 403 ELSE 404]
    /\ UNCHANGED <<nominations, notifications, now, adVars, siteVars>>

(* The document as the handler has it before save: the loaded status is    *)
(* replaced by the requested one whatever it was; save() validates the     *)
(* enum and then writes the modified paths.                                *)
StatusSave(r) ==
    /\ nomReq[r].pc = "loaded"
    /\ nomReq[r].kind = "status"
    /\ LET n == nomReq[r].nom
           st == nomReq[r].newStatus
           fb == nomReq[r].feedback
           old == nominations[n]
       IN  IF st \notin NominationStatuses
           THEN /\ nomReq' = [nomReq EXCEPT ![r].pc = "done", ![r].status = 500]
                /\ UNCHANGED nominations
           ELSE /\ nominations' = [nominations EXCEPT ![n] =
                      [old EXCEPT
                         !.status = IF st # nomReq[r].snap THEN st ELSE old.status,
                         !.feedback = IF fb # "" THEN fb ELSE old.feedback,
                         !.shortlisted_at = IF st = "shortlisted" THEN {now}
                                            ELSE old.shortlisted_at,
                         !.awarded_at = IF st = "winner" THEN {now}
                                        ELSE old.awarded_at]]
                /\ nomReq' = [nomReq EXCEPT ![r].pc = "saved",
                                            ![r].overwritten = old.status]
    /\ UNCHANGED <<notifications, now, adVars, siteVars>>

(* A faulty variant: one title for every status.                           *)
StatusTitleGeneric(st) == "Nomination Status Updated"

StatusTitle(st) ==
    IF st = "shortlisted" THEN "Congratulations! You have been shortlisted!"
    ELSE IF st = "winner" THEN "Congratulations! You are a Winner!"
    ELSE "Nomination Status Updated"

StatusNotify(r) ==
    /\ nomReq[r].pc = "saved"
    /\ nomReq[r].kind = "status"
    /\ notifications' = SendNotification(notifications, r,
                            nominations[nomReq[r].nom].business_id,
                            StatusTitle(nomReq[r].newStatus), nomReq[r].nom)
    /\ nomReq' = [nomReq EXCEPT ![r].pc = "done", ![r].status = 200]
    /\ UNCHANGED <<nominations, now, adVars, siteVars>>

StatusNotifyFails(r) ==
    /\ nomReq[r].pc = "saved"
    /\ nomReq[r].kind = "status"
    /\ notifications' = SendNotificationFails(notifications, r,
                            nominations[nomReq[r].nom].business_id,
                            StatusTitle(nomReq[r].newStatus), nomReq[r].nom)
    /\ nomReq' = [nomReq EXCEPT ![r].pc = "done", ![r].status = 200]
    /\ UNCHANGED <<nominations, now, adVars, siteVars>>

(***************************************************************************)
(* User documents as the account endpoints see them, and the last account  *)
(* request with its number n.                                              *)
(***************************************************************************)
InitialAccounts ==
    [u \in UserIds |->
        [password |-> "hash", email |-> u, role |-> Users[u].role,
         status |-> Users[u].status, verified |-> Users[u].verified]]

NoProfileOp ==
    [n |-> 0, kind |-> Null, user |-> Null, target |-> Null, body |-> EmptyBody,
     status |-> 0]

Without(rec, keys) == [f \in DOMAIN rec \ keys |-> rec[f]]

ProtectedFields == {"password", "role", "status", "verified", "email"}
DocumentFields == {"registration_number", "tax_clearance_certificate", "business_license"}

(* Request bodies of PUT /api/business/profile: a plain field, the         *)
(* protected fields at top level, a registration document, the same with   *)
(* verified: true, and the protected fields inside a $set operator.        *)
ProfileBodies ==
    {[company_name |-> "new name"],
     [password |-> "plain", role |-> "admin", status |-> "verified",
      verified |-> TRUE, email |-> "other"],
     [registration_number |-> "RN"],
     [business_license |-> "BL", verified |-> TRUE],
     [f \in {"$set"} |-> [role |-> "admin", verified |-> TRUE]]}

(* updates after the five deletes and the document rule.                   *)
ProfileUpdates(body) ==
    LET updates == Without(body, ProtectedFields)
    IN  IF DOMAIN updates \cap DocumentFields # {}
        THEN Merge(updates, [verified |-> FALSE])
        ELSE updates

(* The update as the query sends it: top-level fields are written into     *)
(* $set, next to whatever a $set key of the update already holds.          *)
CastUpdate(update) ==
    IF "$set" \in DOMAIN update
    THEN Merge(update["$set"], Without(update, {"$set"}))
    ELSE update

(* User.findByIdAndUpdate(id, update): the paths of the $set are written.  *)
FindByIdAndUpdateUser(accts, id, update) ==
    LET set == CastUpdate(update)
    IN  [accts EXCEPT ![id] =
            [f \in DOMAIN @ |-> IF f \in DOMAIN set THEN set[f] ELSE @[f]]]

AccountAuthenticated(u) == accounts[u].status \in {"active", "verified"}

(***************************************************************************)
(* PUT /api/business/profile                                               *)
(***************************************************************************)
UpdateProfile ==
    /\ profLog.n < MaxProfileOps
    /\ \E u \in UserIds, body \in ProfileBodies :
         /\ AccountAuthenticated(u)
         /\ accounts' = FindByIdAndUpdateUser(accounts, u,
                           Merge(ProfileUpdates(body), [updated_at |-> {now}]))
         /\ notifications' = SendNotification(notifications,
                                MaxNomReqs + profLog.n + 1, u, "Profile Updated", 0)
         /\ profLog' = [n |-> profLog.n + 1, kind |-> "profile", user |-> u,
                        target |-> u, body |-> body, status |-> 200]
    /\ UNCHANGED <<nominations, nomReq, now, adVars, content, viewReq>>

(***************************************************************************)
(* PUT /api/admin/businesses/:id                                           *)
(***************************************************************************)
AdminBodies ==
    {[verified |-> TRUE], [verified |-> FALSE], [status |-> "active"],
     [status |-> "suspended"]}

AdminUpdateData(body) ==
    Merge([f \in DOMAIN body \cap {"status", "verified"} |-> body[f]],
          [updated_at |-> {now}])

AdminUpdateBusiness ==
    /\ profLog.n < MaxProfileOps
    /\ \E u \in UserIds, target \in UserIds, body \in AdminBodies :
         /\ AccountAuthenticated(u)
         /\ IF accounts[u].role # "admin"
            THEN /\ profLog' = [n |-> profLog.n + 1, kind |-> "admin_update",
                                user |-> u, target |-> target, body |-> body,
                                status |-> 403]
                 /\ UNCHANGED <<accounts, notifications>>
            ELSE /\ accounts' = FindByIdAndUpdateUser(accounts, target,
                                                      AdminUpdateData(body))
                 /\ notifications' = SendNotification(notifications,
                                        MaxNomReqs + profLog.n + 1, target,
                                        "Account Status Updated", 0)
                 /\ profLog' = [n |-> profLog.n + 1, kind |-> "admin_update",
                                user |-> u, target |-> target, body |-> body,
                                status |-> 200]
    /\ UNCHANGED <<nominations, nomReq, now, adVars, content, viewReq>>

(***************************************************************************)
(* Announcements and news articles with their view counters, and the       *)
(* requests that read them.  snap holds the views of the documents a       *)
(* request loaded, todo the loaded announcements it has not yet saved.     *)
(***************************************************************************)
InitialContent ==
    [ann1 |-> [kind |-> "announcement", published |-> TRUE, views |-> 0],
     ann2 |-> [kind |-> "announcement", published |-> TRUE, views |-> 0],
     ann3 |-> [kind |-> "announcement", published |-> FALSE, views |-> 0],
     art1 |-> [kind |-> "article", published |-> TRUE, views |-> 0],
     art2 |-> [kind |-> "article", published |-> FALSE, views |-> 0]]

ContentIds == DOMAIN InitialContent

IdleViewReq ==
    [pc |-> "idle", kind |-> Null, items |-> {}, todo |-> {}, snap |-> <<>>,
     status |-> 0]

(* doc.views += 1; doc.save(): the value computed from the loaded document *)
(* is written.                                                             *)
SaveViews(docs, id, loaded) == [docs EXCEPT ![id].views = loaded + 1]

(* GET /api/announcements: the find.                                       *)
AnnouncementsFind(r) ==
    /\ viewReq[r].pc = "idle"
    /\ LET found == {a \in ContentIds : /\ content[a].kind = "announcement"
                                        /\ content[a].published}
       IN  viewReq' = [viewReq EXCEPT ![r] =
              [pc |-> "loaded", kind |-> "announcements", items |-> found,
               todo |-> found, snap |-> [a \in found |-> content[a].views],
               status |-> 0]]
    /\ UNCHANGED <<content, accounts, profLog, now, adVars, nomVars>>

(* One turn of the loop over the loaded announcements; the response        *)
(* follows the last one.                                                   *)
AnnouncementSave(r) ==
    /\ viewReq[r].pc = "loaded"
    /\ viewReq[r].kind = "announcements"
    /\ LET a == CHOOSE x \in viewReq[r].todo : TRUE
           rest == viewReq[r].todo \ {a}
       IN  /\ content' = SaveViews(content, a, viewReq[r].snap[a])
           /\ viewReq' = [viewReq EXCEPT
                 ![r].todo = rest,
                 ![r].pc = IF rest = {} THEN "done" ELSE "loaded",
                 ![r].status = IF rest = {} THEN 200 ELSE 0]
    /\ UNCHANGED <<accounts, profLog, now, adVars, nomVars>>

(* GET /news/article/:slug: findOne({slug, status: 'published'}).          *)
ArticleFind(r) ==
    /\ viewReq[r].pc = "idle"
    /\ \E a \in {x \in ContentIds : content[x].kind = "article"} :
         IF content[a].published
         THEN viewReq' = [viewReq EXCEPT ![r] =
                 [pc |-> "loaded", kind |-> "article", items |-> {a},
                  todo |-> {a}, snap |-> [x \in {a} |-> content[a].views],
                  status |-> 0]]
         ELSE viewReq' = [viewReq EXCEPT ![r].pc = "done", ![r].kind = "article",
                                         ![r].status = 404]
    /\ UNCHANGED <<content, accounts, profLog, now, adVars, nomVars>>

ArticleSave(r) ==
    /\ viewReq[r].pc = "loaded"
    /\ viewReq[r].kind = "article"
    /\ LET a == CHOOSE x \in viewReq[r].todo : TRUE
       IN  /\ content' = SaveViews(content, a, viewReq[r].snap[a])
           /\ viewReq' = [viewReq EXCEPT ![r].todo = {}, ![r].pc = "done",
                                         ![r].status = 200]
    /\ UNCHANGED <<accounts, profLog, now, adVars, nomVars>>

FixedCatalogue ==
    [id \in CampaignOids |-> NewCampaign(id[2], BaseProfile)]

Catalogues ==
    {[id \in CampaignOids |-> NewCampaign(id[2], f[id])] :
        f \in [CampaignOids -> CampaignProfiles]}

InitWith(cats) ==
    /\ campaigns \in cats
    /\ impressions = {}
    /\ clicks = {}
    /\ now = 0
    /\ adReq = [r \in AdReqs |-> IdleReq]
    /\ selResp = NoSelResp
    /\ nominations = <<>>
    /\ notifications = {}
    /\ accounts = InitialAccounts
    /\ profLog = NoProfileOp
    /\ content = InitialContent
    /\ viewReq = [r \in ViewReqs |-> IdleViewReq]
    /\ nomReq = [r \in NomReqs |-> IdleNomReq]

Init == InitWith({FixedCatalogue})

SelectInit == InitWith(Catalogues)

(* The catalogues whose campaigns all have the same profile.               *)
UniformCatalogues ==
    {[id \in CampaignOids |-> NewCampaign(id[2], p)] : p \in CampaignProfiles}
CapInit == InitWith(UniformCatalogues)

NoFaultNext ==
    \/ \E r \in AdReqs : RecordImpressionSave(r)
    \/ \E r \in AdReqs : RecordImpressionInc(r)
    \/ \E r \in AdReqs : RecordClickSave(r)
    \/ \E r \in AdReqs : RecordClickInc(r)

Next ==
    \/ NoFaultNext
    \/ \E r \in AdReqs : RecordSaveFails(r)
    \/ \E r \in AdReqs : RecordIncFails(r)

SelectNext ==
    \/ SelectCampaign
    \/ SelectCampaignFails
    \/ Tick
    \/ \E r \in {1} : RecordImpressionSave(r)
    \/ \E r \in {1} : RecordImpressionInc(r)

(* Impression tracking alone, for every campaign profile.                  *)
CapNext ==
    \/ \E r \in AdReqs : RecordImpressionSave(r)
    \/ \E r \in AdReqs : RecordImpressionInc(r)

NomNext ==
    \/ \E r \in NomReqs : CreateNomination(r)
    \/ \E r \in NomReqs : CreateNotify(r)
    \/ \E r \in NomReqs : SubmitFind(r)
    \/ \E r \in NomReqs : SubmitSave(r)
    \/ \E r \in NomReqs : SubmitNotifyAdmins(r)
    \/ \E r \in NomReqs : SubmitNotifyBusiness(r)
    \/ \E r \in NomReqs : StatusFind(r)
    \/ \E r \in NomReqs : StatusSave(r)
    \/ \E r \in NomReqs : StatusNotify(r)

(* The nomination handlers with failures after the save.                   *)
NomFaultNext ==
    \/ NomNext
    \/ \E r \in NomReqs : SubmitLookupFails(r)
    \/ \E r \in NomReqs : SubmitNotifyAdminsFails(r)
    \/ \E r \in NomReqs : SubmitNotifyBusinessFails(r)
    \/ \E r \in NomReqs : StatusNotifyFails(r)

Spec == Init /\ [][Next]_vars
NoFaultSpec == Init /\ [][NoFaultNext]_vars
SelectSpec == SelectInit /\ [][SelectNext]_vars
AccountNext == UpdateProfile \/ AdminUpdateBusiness

ViewNext ==
    \/ \E r \in ViewReqs : AnnouncementsFind(r)
    \/ \E r \in ViewReqs : AnnouncementSave(r)
    \/ \E r \in ViewReqs : ArticleFind(r)
    \/ \E r \in ViewReqs : ArticleSave(r)

AccountSpec == Init /\ [][AccountNext]_vars
ViewSpec == Init /\ [][ViewNext]_vars
CapSpec == CapInit /\ [][CapNext]_vars
NomSpec == Init /\ [][NomNext]_vars
NomFaultSpec == Init /\ [][NomFaultNext]_vars

(***************************************************************************)
(* Properties.                                                             *)
(***************************************************************************)
TrackReqs(kind, c) ==
    {r \in AdReqs : /\ adReq[r].kind = kind
                    /\ adReq[r].campaign_id # NoId
                    /\ CastObjectId(adReq[r].campaign_id) = c}

ImpressionsOf(c) == {i \in impressions : i.campaign_id = c}
ClicksOf(c) == {k \in clicks : k.campaign_id = c}

Quiescent == \A r \in AdReqs : adReq[r].pc \in {"idle", "done"}

(* C1: once the N recordImpression requests issued for an existing         *)
(* campaign have all been answered, whatever the interleaving of their     *)
(* save and increment steps, every one of them got 200, the campaign has   *)
(* exactly N Impression records with N distinct ids, and its               *)
(* current_impressions has grown from 0 to exactly N.                      *)
C1_NoLostImpressions ==
    \A c \in DOMAIN campaigns :
        LET R == TrackReqs("impression", c)
        IN  (\A r \in R : adReq[r].pc = "done") =>
               /\ \A r \in R : adReq[r].status = 200
               /\ Cardinality(ImpressionsOf(c)) = Cardinality(R)
               /\ Cardinality({i.id : i \in ImpressionsOf(c)}) = Cardinality(R)
               /\ campaigns[c].current_impressions = Cardinality(R)

(* Two or more impression requests for one campaign have all completed.    *)
C1_Witness ==
    \E c \in DOMAIN campaigns :
        LET R == TrackReqs("impression", c)
        IN  /\ Cardinality(R) >= 2
            /\ \A r \in R : adReq[r].pc = "done" /\ adReq[r].status = 200
            /\ campaigns[c].current_impressions = Cardinality(R)

(* C7: a recordImpression/recordClick request for an existing campaign     *)
(* that has been answered (success or failure) either created its record   *)
(* and incremented the counter, or did neither.                            *)
C7_RecordAndCounterAtomic ==
    \A r \in AdReqs :
        (/\ adReq[r].pc = "done"
         /\ adReq[r].kind \in {"impression", "click"}
         /\ adReq[r].campaign_id # NoId
         /\ CastObjectId(adReq[r].campaign_id) \in DOMAIN campaigns)
        => ((adReq[r].rec # NoId) <=> adReq[r].matched)

(* C8: once no request is in flight, every campaign's current_impressions  *)
(* equals the number of its Impression records and current_clicks the      *)
(* number of its Click records.                                            *)
C8_CountersReconciled ==
    Quiescent =>
        \A c \in DOMAIN campaigns :
            /\ campaigns[c].current_impressions = Cardinality(ImpressionsOf(c))
            /\ campaigns[c].current_clicks = Cardinality(ClicksOf(c))

(* C9: a recordImpression/recordClick request naming a campaign that does  *)
(* not exist is not answered with success, and no Impression or Click      *)
(* record references the unknown campaign.                                 *)
C9_UnknownCampaignRejected ==
    \A r \in AdReqs :
        (/\ adReq[r].pc = "done"
         /\ adReq[r].kind \in {"impression", "click"}
         /\ adReq[r].campaign_id # NoId
         /\ CastObjectId(adReq[r].campaign_id) \notin DOMAIN campaigns)
        => /\ adReq[r].status # 200
           /\ ImpressionsOf(CastObjectId(adReq[r].campaign_id)) = {}
           /\ ClicksOf(CastObjectId(adReq[r].campaign_id)) = {}

(* C10: recordImpression and recordClick never create a campaign: the set  *)
(* of Campaign documents is always the set that existed initially, also    *)
(* after the counter increment for an unknown campaign id.                 *)
C10_NoPhantomCampaign == DOMAIN campaigns = CampaignOids

(* An impression and a click request for the unknown campaign id have run  *)
(* their counter increment.                                                *)
C10_Witness ==
    \E r1, r2 \in AdReqs :
        /\ adReq[r1].kind = "impression" /\ adReq[r2].kind = "click"
        /\ \A r \in {r1, r2} :
              /\ adReq[r].pc = "done" /\ adReq[r].status = 200
              /\ CastObjectId(adReq[r].campaign_id) = Oid(UnknownNum)

(* C11: a recordImpression or recordClick request whose body has no        *)
(* campaign_id is answered 400 in its first step, and that step creates no *)
(* Impression or Click record and changes no campaign document.            *)
C11_MissingIdRejectedFirst ==
    [][\A r \in AdReqs :
          (/\ adReq[r].pc = "idle"
           /\ adReq'[r].pc # "idle"
           /\ adReq'[r].campaign_id = NoId)
          => /\ adReq'[r].pc = "done"
             /\ adReq'[r].status = 400
             /\ adReq'[r].rec = NoId
             /\ UNCHANGED <<campaigns, impressions, clicks>>]_vars

(* An impression request and a click request without campaign_id have both *)
(* been answered 400.                                                      *)
C11_Witness ==
    \E r1, r2 \in AdReqs :
        /\ adReq[r1].kind = "impression" /\ adReq[r2].kind = "click"
        /\ \A r \in {r1, r2} :
              /\ adReq[r].pc = "done" /\ adReq[r].status = 400
              /\ adReq[r].campaign_id = NoId

Succeeded(kind, c) == {r \in TrackReqs(kind, c) : adReq[r].status = 200}

(* C12: at every moment an existing campaign's current_clicks equals the   *)
(* number of click requests for it answered with success, with or without  *)
(* an impression_id, and its current_impressions equals the number of      *)
(* successful impression requests, so a click never moves it; the          *)
(* impression_id of a request is found only in the Click record it saved.  *)
C12_ClickCountsOnce ==
    /\ \A c \in DOMAIN campaigns :
          /\ campaigns[c].current_clicks = Cardinality(Succeeded("click", c))
          /\ campaigns[c].current_impressions = Cardinality(Succeeded("impression", c))
    /\ \A k \in clicks :
          \E r \in AdReqs : /\ k.id = adReq[r].rec
                            /\ adReq[r].kind = "click"
                            /\ k.impression_id = adReq[r].impression_id

(* Two clicks on one campaign have succeeded, one carrying an              *)
(* impression_id and one without.                                          *)
C12_Witness ==
    \E c \in DOMAIN campaigns :
        \E r1, r2 \in Succeeded("click", c) :
            /\ adReq[r1].impression_id # NoId
            /\ adReq[r2].impression_id = NoId
            /\ campaigns[c].current_clicks = 2
            /\ campaigns[c].current_impressions = 0

(* C13: no step removes or alters an Impression or Click record: every     *)
(* record of either collection is still there, unchanged, after the step.  *)
C13_LedgerAppendOnly ==
    [][impressions \subseteq impressions' /\ clicks \subseteq clicks']_vars

(* Both collections hold a record, one of them saved by a request that     *)
(* then failed.                                                            *)
C13_Witness ==
    /\ impressions # {}
    /\ clicks # {}
    /\ \E r \in AdReqs : adReq[r].status = 500 /\ adReq[r].rec # NoId

(* The eligibility invariant of the data model, for a document d at t.     *)
Eligible(d, t) ==
    /\ d.status = "active"
    /\ d.payment_status = "paid"
    /\ d.start_date <= t /\ t <= d.end_date
    /\ (d.max_impressions = {} \/ \A m \in d.max_impressions : d.current_impressions < m)

(* C5: a campaign returned by GET /ads/next satisfied, when it was         *)
(* queried, the full filter: eligible, of the requested placement type,    *)
(* and its id is not one of the ids the request excluded.                  *)
C5_ReturnsOnlyFiltered ==
    selResp.status = 200 =>
        /\ Eligible(selResp.ad, selResp.at)
        /\ selResp.ad.campaign_type = selResp.placement
        /\ selResp.data.id \notin selResp.exclude

(* The campaigns the request asks for: eligible, of the placement type,    *)
(* and not excluded by the ids in the query string.                        *)
Wanted(camps, type, excl, t) ==
    {id \in DOMAIN camps : /\ Eligible(camps[id], t)
                           /\ camps[id].campaign_type = type
                           /\ ToJSON(id) \notin excl}

(* C6: GET /ads/next answers 404 exactly when no campaign is eligible, of  *)
(* the placement type and not excluded; otherwise it answers 200 with a    *)
(* campaign; a backend failure is answered 500, never 404.                 *)
C6_NotFoundIffNoneWanted ==
    [][(selResp' # selResp /\ selResp'.status \in {200, 404}) =>
          (selResp'.status = 404 <=>
              Wanted(campaigns, selResp'.placement, selResp'.exclude, now) = {})]_vars

(* What GET /ads/next does guarantee: the returned campaign was eligible   *)
(* and of the requested type when queried, and 404 is answered exactly     *)
(* when no campaign is eligible and of that type.                          *)
ReturnsEligibleOfType ==
    selResp.status = 200 =>
        /\ Eligible(selResp.ad, selResp.at)
        /\ selResp.ad.campaign_type = selResp.placement

NotFoundIffNoneEligible ==
    [][(selResp' # selResp /\ selResp'.status \in {200, 404}) =>
          (selResp'.status = 404 <=>
              Wanted(campaigns, selResp'.placement, {}, now) = {})]_vars

(* The fields the public listing is said to carry, and the documents that  *)
(* differ from ad only in cap, counters and payment state.                 *)
PublicFields ==
    {"id", "image_url", "mobile_image_url", "alt_text", "target_url", "business_name"}

InternalVariants(ad) ==
    {[ad EXCEPT !.max_impressions = m, !.current_impressions = i,
                !.current_clicks = k, !.payment_status = p] :
        m \in {{}, {1}, {MaxAdReqs + 1}}, i \in 0..MaxAdReqs, k \in 0..MaxAdReqs,
        p \in {"paid", "pending"}}

LegalTransitions ==
    {<<"draft", "submitted">>, <<"submitted", "under_review">>,
     <<"under_review", "shortlisted">>, <<"shortlisted", "finalist">>,
     <<"finalist", "winner">>, <<"under_review", "not_selected">>,
     <<"shortlisted", "not_selected">>, <<"finalist", "not_selected">>}

TerminalStatuses == {"winner", "not_selected"}

(* C2: transitions of one nomination are linearizable: a submit or         *)
(* transitionStatus request that succeeds replaced, in the store, the      *)
(* very status it had observed and checked, so no two requests that        *)
(* observed the same current status both succeed against it.               *)
C2_TransitionsLinearizable ==
    \A r \in NomReqs :
        (/\ nomReq[r].kind \in {"submit", "status"}
         /\ nomReq[r].pc = "done"
         /\ nomReq[r].status = 200)
        => nomReq[r].overwritten = nomReq[r].snap

(* C3: a transitionStatus request on an existing nomination succeeds only  *)
(* when the requested status is a legal successor of the status it found;  *)
(* every other request is answered 400 and has written nothing.            *)
C3_OnlyLegalSuccessors ==
    \A r \in NomReqs :
        (/\ nomReq[r].kind = "status"
         /\ nomReq[r].pc = "done"
         /\ nomReq[r].snap # Null)
        => IF <<nomReq[r].snap, nomReq[r].newStatus>> \in LegalTransitions
           THEN nomReq[r].status = 200
           ELSE nomReq[r].status = 400 /\ nomReq[r].overwritten = Null

(* C4: once a nomination's status is winner or not_selected, no step       *)
(* changes it.                                                             *)
C4_TerminalStatusesStay ==
    [][\A n \in DOMAIN nominations :
          nominations[n].status \in TerminalStatuses =>
             nominations'[n].status = nominations[n].status]_vars

(* C16: a submit by the owner goes on to the update only when the status   *)
(* it found is draft, the update sets status to submitted and stamps       *)
(* submitted_at, and only such a request is answered 200; a submit that    *)
(* finds any other status, such as a second submit in a row, is answered   *)
(* 400 in a step that leaves every nomination and the notifications        *)
(* unchanged.                                                              *)
C16_SubmitOnlyFromDraft ==
    [][\A r \in NomReqs :
          /\ (/\ nomReq[r].pc = "idle"
              /\ nomReq'[r].kind = "submit"
              /\ nomReq'[r].snap # Null)
             => IF nomReq'[r].snap = "draft"
                THEN nomReq'[r].pc = "loaded"
                ELSE /\ nomReq'[r].pc = "done"
                     /\ nomReq'[r].status = 400
                     /\ UNCHANGED <<nominations, notifications>>
          /\ (/\ nomReq[r].kind = "submit"
              /\ nomReq[r].pc = "loaded"
              /\ nomReq'[r].pc = "saved")
             => /\ nominations'[nomReq[r].nom].status = "submitted"
                /\ nominations'[nomReq[r].nom].submitted_at = {now}
          /\ (nomReq'[r].kind = "submit" /\ nomReq'[r].status = 200)
             => nomReq'[r].snap = "draft"]_vars

(* A submit has succeeded and a later submit of the same nomination by the *)
(* same owner found it submitted and was answered 400.                     *)
C16_Witness ==
    \E r1, r2 \in NomReqs :
        /\ nomReq[r1].kind = "submit" /\ nomReq[r1].status = 200
        /\ nomReq[r2].kind = "submit" /\ nomReq[r2].status = 400
        /\ nomReq[r2].nom = nomReq[r1].nom
        /\ nomReq[r2].user = nomReq[r1].user
        /\ nomReq[r2].snap = "submitted"
        /\ nominations[nomReq[r1].nom].status = "submitted"
        /\ nominations[nomReq[r1].nom].submitted_at # {}
        /\ \A x \in notifications : x.req # r2

(* C17: a submit that names no existing nomination, or one owned by        *)
(* another user, is answered 404 in its first step, and that step leaves   *)
(* every nomination and the notifications unchanged, whatever the          *)
(* nomination's status.                                                    *)
C17_SubmitNotOwnedNotFound ==
    [][\A r \in NomReqs :
          (/\ nomReq[r].pc = "idle"
           /\ nomReq'[r].kind = "submit"
           /\ \/ nomReq'[r].nom \notin DOMAIN nominations
              \/ nominations[nomReq'[r].nom].business_id # nomReq'[r].user)
          => /\ nomReq'[r].pc = "done"
             /\ nomReq'[r].status = 404
             /\ UNCHANGED <<nominations, notifications>>]_vars

(* A submit by a user who is not the owner, for a nomination that exists   *)
(* and is already submitted, has been answered 404 and sent nothing.       *)
C17_Witness ==
    \E r \in NomReqs :
        /\ nomReq[r].kind = "submit" /\ nomReq[r].status = 404
        /\ nomReq[r].nom \in DOMAIN nominations
        /\ nominations[nomReq[r].nom].business_id # nomReq[r].user
        /\ nominations[nomReq[r].nom].status = "submitted"
        /\ \A x \in notifications : x.req # r

(* C18: a create request by a caller whose verified flag is false is       *)
(* answered 403 and stores nothing; one by a verified caller either fails  *)
(* validation and stores nothing or stores exactly one new Nomination,     *)
(* with status draft and business_id the caller, whatever status and       *)
(* business_id the body carries; 201 is answered to verified callers only. *)
C18_CreateVerifiedDraftOwned ==
    [][\A r \in NomReqs :
          /\ (nomReq[r].pc = "idle" /\ nomReq'[r].kind = "create")
             => IF Users[nomReq'[r].user].verified
                THEN /\ nomReq'[r].status # 403
                     /\ \/ /\ nomReq'[r].status = 500
                           /\ UNCHANGED <<nominations, notifications>>
                        \/ \E n \in DOMAIN nominations' \ DOMAIN nominations :
                              /\ DOMAIN nominations' = DOMAIN nominations \cup {n}
                              /\ nomReq'[r].nom = n
                              /\ nominations'[n].status = "draft"
                              /\ nominations'[n].business_id = nomReq'[r].user
                              /\ \A m \in DOMAIN nominations :
                                    nominations'[m] = nominations[m]
                ELSE /\ nomReq'[r].status = 403
                     /\ nomReq'[r].pc = "done"
                     /\ UNCHANGED <<nominations, notifications>>
          /\ (nomReq'[r].kind = "create" /\ nomReq'[r].status = 201)
             => Users[nomReq'[r].user].verified]_vars

(* An unverified caller has been refused, and a verified caller whose body *)
(* carried status winner and another user's business_id has been answered  *)
(* 201.                                                                    *)
C18_Witness ==
    \E r1, r2 \in NomReqs :
        /\ nomReq[r1].kind = "create" /\ nomReq[r1].status = 403
        /\ ~Users[nomReq[r1].user].verified
        /\ nomReq[r2].kind = "create" /\ nomReq[r2].status = 201
        /\ "status" \in DOMAIN nomReq[r2].body
        /\ nomReq[r2].body.status = "winner"
        /\ nomReq[r2].body.business_id # nomReq[r2].user
        /\ nominations[nomReq[r2].nom].business_id = nomReq[r2].user

(* C19: a nomination's status becomes draft only in the step that creates  *)
(* it, and becomes submitted only in the save of a submit request of its   *)
(* owner; no save of the admin's status request sets either.               *)
C19_DraftSubmittedByBusinessOnly ==
    [][\A n \in DOMAIN nominations' :
          /\ (n \in DOMAIN nominations /\ nominations'[n].status # nominations[n].status)
             => /\ nominations'[n].status # "draft"
                /\ nominations'[n].status = "submitted" =>
                      \E r \in NomReqs :
                         /\ nomReq[r].kind = "submit"
                         /\ nomReq[r].pc = "loaded" /\ nomReq'[r].pc = "saved"
                         /\ nomReq[r].nom = n
                         /\ nomReq[r].user = nominations[n].business_id
          /\ n \notin DOMAIN nominations => nominations'[n].status = "draft"]_vars

AdminOnlyStatuses ==
    {"under_review", "shortlisted", "finalist", "winner", "not_selected"}

(* C20: every step in which a nomination comes to have one of the statuses *)
(* after submitted, by creation or by change, is the save of a status      *)
(* request whose authenticated user does not have the role business.       *)
C20_LaterStatesNotByBusiness ==
    [][\A n \in DOMAIN nominations' :
          (/\ nominations'[n].status \in AdminOnlyStatuses
           /\ \/ n \notin DOMAIN nominations
              \/ nominations'[n].status # nominations[n].status)
          => \E r \in NomReqs :
                /\ nomReq[r].kind = "status"
                /\ nomReq[r].pc = "loaded" /\ nomReq'[r].pc = "saved"
                /\ nomReq[r].nom = n
                /\ Users[nomReq[r].user].role # "business"]_vars

(* A business user has created a nomination with status winner in the body *)
(* and has called the status endpoint and been refused; the nomination is  *)
(* still a draft.                                                          *)
C20_Witness ==
    \E r1, r2 \in NomReqs :
        /\ nomReq[r1].kind = "create" /\ nomReq[r1].status = 201
        /\ Users[nomReq[r1].user].role = "business"
        /\ "status" \in DOMAIN nomReq[r1].body
        /\ nomReq[r2].kind = "status" /\ nomReq[r2].status = 403
        /\ nomReq[r2].user = nomReq[r1].user
        /\ nominations[nomReq[r1].nom].status = "draft"

RECURSIVE SumOf(_)
SumOf(q) == IF q = <<>> THEN 0 ELSE Head(q) + SumOf(Tail(q))

(* average_score is the mean of scores: their sum is average_score times   *)
(* their number; with no score the average is the schema's 0.              *)
IsMeanOf(avg, q) == IF q = <<>> THEN avg = 0 ELSE avg * Len(q) = SumOf(q)

(* C21: in every state each nomination's average_score is the arithmetic   *)
(* mean of the values in its scores list.                                  *)
C21_AverageIsMean ==
    \A n \in DOMAIN nominations :
        IsMeanOf(nominations[n].average_score, nominations[n].scores)

(* C24: a create request whose body carries a score outside 0..100 is      *)
(* answered 400 and stores no nomination, and no stored nomination has a   *)
(* score outside 0..100.                                                   *)
C24_OutOfRangeScoreIs400 ==
    /\ \A n \in DOMAIN nominations :
          \A i \in DOMAIN nominations[n].scores : nominations[n].scores[i] \in 0..100
    /\ \A r \in NomReqs :
          (/\ nomReq[r].kind = "create"
           /\ Users[nomReq[r].user].verified
           /\ "scores" \in DOMAIN nomReq[r].body
           /\ \E i \in DOMAIN nomReq[r].body.scores :
                 nomReq[r].body.scores[i] \notin 0..100)
          => nomReq[r].status = 400 /\ nomReq[r].nom = 0

(* C28: the nomination a create request stores has an empty scores list,   *)
(* average_score 0, no feedback, no winner_position and no timeline stamp, *)
(* whatever the body carries.                                              *)
C28_CreatedWithoutEvaluation ==
    [][\A n \in DOMAIN nominations' \ DOMAIN nominations :
          /\ nominations'[n].scores = <<>>
          /\ nominations'[n].average_score = 0
          /\ nominations'[n].feedback = ""
          /\ nominations'[n].winner_position = Null
          /\ nominations'[n].submitted_at = {}
          /\ nominations'[n].reviewed_at = {}
          /\ nominations'[n].shortlisted_at = {}
          /\ nominations'[n].awarded_at = {}]_vars

(* C25: a nomination whose status is under_review has reviewed_at set, one *)
(* whose status is shortlisted has shortlisted_at set, and one whose       *)
(* status is winner has awarded_at set.                                    *)
C25_TimelineStamped ==
    \A n \in DOMAIN nominations :
        /\ nominations[n].status = "under_review" => nominations[n].reviewed_at # {}
        /\ nominations[n].status = "shortlisted" => nominations[n].shortlisted_at # {}
        /\ nominations[n].status = "winner" => nominations[n].awarded_at # {}

NotesOf(r) == {x \in notifications : x.req = r}

(* C22: a submit answered 200 has made exactly one sendNotification call   *)
(* for the submitting user, exactly one for every user with role admin and *)
(* status active, and no other; a submit answered with an error has made   *)
(* none.                                                                   *)
C22_SubmitNotifiesBusinessAndAdmins ==
    \A r \in NomReqs :
        (nomReq[r].kind = "submit" /\ nomReq[r].pc = "done") =>
            LET admins == {u \in UserIds : /\ Users[u].role = "admin"
                                           /\ Users[u].status = "active"}
            IN  IF nomReq[r].status = 200
                THEN /\ Cardinality({x \in NotesOf(r) :
                            /\ x.user_id = nomReq[r].user
                            /\ x.title = "Nomination Submitted"}) = 1
                     /\ \A a \in admins :
                           Cardinality({x \in NotesOf(r) :
                              /\ x.user_id = a
                              /\ x.title = "New Nomination Submitted"}) = 1
                     /\ Cardinality(NotesOf(r)) = 1 + Cardinality(admins)
                     /\ \A x \in NotesOf(r) : x.related_id = nomReq[r].nom
                ELSE NotesOf(r) = {}

(* A business has submitted with success and a later submit has failed.    *)
C22_Witness ==
    \E r1, r2 \in NomReqs :
        /\ nomReq[r1].kind = "submit" /\ nomReq[r1].status = 200
        /\ Users[nomReq[r1].user].role = "business"
        /\ Cardinality(NotesOf(r1)) = 2
        /\ nomReq[r2].kind = "submit" /\ nomReq[r2].status = 400
        /\ NotesOf(r2) = {}

(* C23: a submit or status request that has persisted the new status and   *)
(* has been answered was answered 200, whatever failed afterwards.         *)
C23_PersistedMeansSuccess ==
    \A r \in NomReqs :
        (/\ nomReq[r].kind \in {"submit", "status"}
         /\ nomReq[r].pc = "done"
         /\ nomReq[r].overwritten # Null)
        => nomReq[r].status = 200

(* C26: a status request answered 200 whose new status is shortlisted or   *)
(* winner has made a sendNotification call for the nomination's owner      *)
(* with the title of that status.                                          *)
C26_OwnerToldOfShortlistAndWin ==
    \A r \in NomReqs :
        (/\ nomReq[r].kind = "status"
         /\ nomReq[r].status = 200
         /\ nomReq[r].newStatus \in {"shortlisted", "winner"})
        => \E x \in NotesOf(r) :
              /\ x.user_id = nominations[nomReq[r].nom].business_id
              /\ x.related_id = nomReq[r].nom
              /\ x.title = IF nomReq[r].newStatus = "shortlisted"
                           THEN "Congratulations! You have been shortlisted!"
                           ELSE "Congratulations! You are a Winner!"

(* A request to shortlisted and a request to winner have both succeeded.   *)
C26_Witness ==
    \E r1, r2 \in NomReqs :
        /\ nomReq[r1].kind = "status" /\ nomReq[r1].status = 200
        /\ nomReq[r1].newStatus = "shortlisted"
        /\ nomReq[r2].kind = "status" /\ nomReq[r2].status = 200
        /\ nomReq[r2].newStatus = "winner"
        /\ nomReq[r2].nom = nomReq[r1].nom

(* C27: whatever a campaign's status, payment status, date window and cap, *)
(* every answered recordImpression request for it was answered 200, and    *)
(* its current_impressions is the number of those requests: the cap does   *)
(* not stop the increment.                                                 *)
C27_IncrementIgnoresEligibility ==
    \A c \in DOMAIN campaigns :
        LET R == {r \in TrackReqs("impression", c) : adReq[r].pc = "done"}
        IN  /\ \A r \in R : adReq[r].status = 200 /\ adReq[r].matched
            /\ campaigns[c].current_impressions = Cardinality(R)

(* A campaign's current_impressions is above its max_impressions.          *)
C27_Witness ==
    \E c \in DOMAIN campaigns :
        /\ campaigns[c].max_impressions # {}
        /\ \A m \in campaigns[c].max_impressions : campaigns[c].current_impressions > m
        /\ ~CapAllows(campaigns[c])

(* C29: a profile update leaves every user's password, role, status and    *)
(* email as they were and leaves verified as it was, except that the       *)
(* caller's verified becomes false when the body carries a registration    *)
(* document; verified turns true only in an admin business update.         *)
C29_ProfileKeepsProtectedFields ==
    [][/\ (profLog' # profLog /\ profLog'.kind = "profile") =>
             \A u \in UserIds :
                /\ accounts'[u].password = accounts[u].password
                /\ accounts'[u].role = accounts[u].role
                /\ accounts'[u].status = accounts[u].status
                /\ accounts'[u].email = accounts[u].email
                /\ \/ accounts'[u].verified = accounts[u].verified
                   \/ /\ u = profLog'.user
                      /\ accounts'[u].verified = FALSE
                      /\ DOMAIN profLog'.body \cap DocumentFields # {}
       /\ \A u \in UserIds :
             (accounts'[u].verified /\ ~accounts[u].verified) =>
                 (profLog'.kind = "admin_update" /\ profLog'.target = u)]_vars

ViewsQuiescent == \A r \in ViewReqs : viewReq[r].pc \in {"idle", "done"}

(* C30: once no request is in flight, the view counter of every            *)
(* announcement and article equals the number of requests answered 200     *)
(* that returned it.                                                       *)
C30_EveryViewCounted ==
    ViewsQuiescent =>
        \A a \in ContentIds :
            content[a].views =
               Cardinality({r \in ViewReqs : /\ viewReq[r].status = 200
                                             /\ a \in viewReq[r].items})

=============================================================================
